---- MODULE Spec2Model ----
(***************************************************************************)
(* Model of scrape_dubai.py: an incremental scraper that discovers room    *)
(* ids zone by zone, filters them against processed_ids.txt, fetches the   *)
(* details of at most LISTINGS_PER_RUN of them and rewrites                *)
(* dubai_listings.csv.  The two files persist from one run to the next;    *)
(* everything else is local to a run.                                      *)
(*                                                                         *)
(* Room ids are the text str(room_id) of a positive number; the model      *)
(* writes the text "7" as the number 7.  Host ids likewise, with 0 for "". *)
(***************************************************************************)
EXTENDS Integers, Sequences, FiniteSets, TLC

(* ---- bounds of the model ---- *)
MaxId == 3          \* room ids are 1..MaxId
MaxHits == 2        \* a search response carries at most MaxHits hits
MaxRuns == 2        \* number of runs of the script that are started
NumHosts == 1       \* the area of Spec holds the listings of NumHosts hosts
NumOwners == 2      \* host ids are 1..NumOwners
MaxCount == 1       \* get_listings_from_user returns 0..MaxCount listings
MaxN == 4           \* retry_on_failure is applied with max_retries in 0..MaxN
MaxK == 5           \* the remote operation fails on its first 0..MaxK calls
MaxGrid == 4        \* build_dubai_city_subzones is called with -MaxGrid..MaxGrid

(* ---- program constants, scaled down: they bound the model too ---- *)
LISTINGS_PER_RUN == 2       \* 200 in the source (line 14)
COMMIT_EVERY == 2           \* 50 in the source (line 32)
ROWS == 1                   \* rows=4 in the source (line 181)
COLS == 2                   \* cols=5 in the source (line 181)

(* ---- program constants: the arguments of the four @retry_on_failure ---- *)
MAX_RETRIES == 3
RETRY_DELAY_SEARCH == 2
RETRY_DELAY_DETAILS == 2
RETRY_DELAY_HOST == 2
RETRY_DELAY_COUNT == 1

(* ---- program constants: the bounding box of lines 69-72, in 1/10000 ---- *)
(* ---- of a degree                                                     ---- *)
NORTH == 253463
SOUTH == 247743
EAST == 555224
WEST == 549493

Ids == 1..MaxId
Hosts == 1..NumOwners
NumZones == ROWS * COLS

VARIABLES
    processedFile,      \* processed_ids.txt: the lines, in file order
    csvFile,            \* dubai_listings.csv: the data rows, in file order
    pc,                 \* where the run is: idle, discover, fetch, done, crashed
    runs,               \* number of runs started so far
    processed_ids,      \* scrape_dubai_incremental: set loaded at run start
    existing_records,   \* scrape_dubai_incremental: rows loaded at run start
    zoneIdx,            \* collect_all_room_ids: idx of the next zone
    all_room_ids,       \* the list collected, then the deduplicated list
    to_process,         \* remaining_ids[:LISTINGS_PER_RUN]
    idx,                \* index in to_process of the next listing
    new_records,        \* records built in this run
    commit_counter,
    host_cache,         \* host id -> cache entry
    hist,               \* history of the run (what was called, on what)
    retry,              \* one call of a decorated function (RetrySpec)
    grid,               \* one call of build_dubai_city_subzones (GridSpec)
    lost,               \* history of the earlier runs: the ids whose last
                        \* detail fetch gave no details
    owners              \* the remote site: the listings of the area are
                        \* those of the hosts 1..owners

vars == <<processedFile, csvFile, pc, runs, processed_ids, existing_records,
          zoneIdx, all_room_ids, to_process, idx, new_records, commit_counter,
          host_cache, hist, retry, grid, lost, owners>>

fileVars == <<processedFile, csvFile>>
runVars == <<processed_ids, existing_records, zoneIdx, all_room_ids, to_process,
             idx, new_records, commit_counter, host_cache>>

(* ---- helpers on sequences ---- *)
Range(s) == {s[i] : i \in 1..Len(s)}
NoDup(s) == \A i, j \in 1..Len(s) : i # j => s[i] # s[j]
Min(a, b) == IF a < b THEN a ELSE b
Prefix(s, n) == SubSeq(s, 1, Min(n, Len(s)))

RECURSIVE Pow2(_)
Pow2(n) == IF n <= 0 THEN 1 ELSE 2 * Pow2(n - 1)

(***************************************************************************)
(* build_dubai_city_subzones, lines 63-96.  The coordinates are computed   *)
(* as exact fractions: a latitude is kept as its numerator over rows, a    *)
(* longitude as its numerator over cols (lat_step is (NORTH - SOUTH) over  *)
(* rows); the rounding of binary floating point is left out.  The name     *)
(* f"dubai_{r+1}_{c+1}" is the pair <<r+1, c+1>>.  A division by zero      *)
(* raises ZeroDivisionError.                                               *)
(***************************************************************************)
Zone(rows, cols, r, c) ==
    LET z_sw_lat == SOUTH * rows + r * (NORTH - SOUTH)
        z_sw_lng == WEST * cols + c * (EAST - WEST)
    IN [name |-> <<r + 1, c + 1>>,
        ne_lat |-> z_sw_lat + (NORTH - SOUTH),
        ne_long |-> z_sw_lng + (EAST - WEST),
        sw_lat |-> z_sw_lat,
        sw_long |-> z_sw_lng]

\* for r in range(rows): for c in range(cols): an empty range when the
\* number is negative.
build_dubai_city_subzones(rows, cols) ==
    IF rows = 0 \/ cols = 0
    THEN [raised |-> TRUE, zones |-> <<>>]
    ELSE LET n == IF rows > 0 /\ cols > 0 THEN rows * cols ELSE 0 IN
         [raised |-> FALSE,
          zones |-> [i \in 1..n |-> Zone(rows, cols, (i - 1) \div cols,
                                         (i - 1) % cols)]]

(***************************************************************************)
(* retry_on_failure.  The decorated function is called on a remote         *)
(* operation that fails on its first k calls and then answers val.         *)
(* RemoteFails(c, k): the c-th call of the remote operation fails.         *)
(***************************************************************************)
RemoteFails(c, k) == c <= k

\* The body of the decorated function at its c-th call: search, detail and
\* host let the remote exception through; get_host_listings_count catches it
\* (bare except) and returns 0.
FuncBody(op, c, k, val) ==
    IF op = "count"
    THEN [raised |-> FALSE, value |-> IF RemoteFails(c, k) THEN 0 ELSE val]
    ELSE [raised |-> RemoteFails(c, k), value |-> val]

\* The same loop sleeping delay after every failed attempt, without the
\* factor 2 ** attempt.
RECURSIVE wrapper_loop_FixedDelay(_, _, _, _, _, _, _, _)
wrapper_loop_FixedDelay(op, max_retries, delay, k, val, attempt, calls, sleeps) ==
    IF attempt >= max_retries
    THEN [status |-> "none", value |-> 0, calls |-> calls, sleeps |-> sleeps]
    ELSE LET r == FuncBody(op, calls + 1, k, val) IN
         IF ~r.raised
         THEN [status |-> "return", value |-> r.value,
               calls |-> calls + 1, sleeps |-> sleeps]
         ELSE IF attempt = max_retries - 1
         THEN [status |-> "raise", value |-> 0,
               calls |-> calls + 1, sleeps |-> sleeps]
         ELSE wrapper_loop_FixedDelay(op, max_retries, delay, k, val, attempt + 1,
                                      calls + 1, Append(sleeps, delay))

\* Lines 47-58: the for loop of wrapper, from attempt on; calls counts the
\* calls of func, sleeps lists the arguments of time.sleep.
RECURSIVE wrapper_loop(_, _, _, _, _, _, _, _)
wrapper_loop(op, max_retries, delay, k, val, attempt, calls, sleeps) ==
    IF attempt >= max_retries
    THEN [status |-> "none", value |-> 0, calls |-> calls, sleeps |-> sleeps]
    ELSE LET r == FuncBody(op, calls + 1, k, val) IN
         IF ~r.raised
         THEN [status |-> "return", value |-> r.value,
               calls |-> calls + 1, sleeps |-> sleeps]
         ELSE IF attempt = max_retries - 1
         THEN [status |-> "raise", value |-> 0,
               calls |-> calls + 1, sleeps |-> sleeps]
         ELSE wrapper_loop(op, max_retries, delay, k, val, attempt + 1, calls + 1,
                           Append(sleeps, delay * Pow2(attempt)))

wrapper(op, max_retries, delay, k, val) ==
    wrapper_loop(op, max_retries, delay, k, val, 0, 0, <<>>)


(***************************************************************************)
(* Values of the remote responses.  A field of a search hit is absent or   *)
(* falsy (None, "", 0), an int, or a str; str(v) of the int 7 and of the   *)
(* str "7" are the same text.                                              *)
(***************************************************************************)
NoVal == [t |-> "none", v |-> 0]
IntVal(i) == [t |-> "int", v |-> i]
StrVal(i) == [t |-> "str", v |-> i]
Truthy(x) == x.t # "none"
Str(x) == x.v

\* result["listing"]: the key is absent, its value is None, or it is a dict.
NoListing == [k |-> "absent", id |-> NoVal, room_id |-> NoVal]
NullListing == [k |-> "null", id |-> NoVal, room_id |-> NoVal]
DictListing(i, r) == [k |-> "dict", id |-> i, room_id |-> r]

Hit(d, r, i, l) == [dict |-> d, room_id |-> r, id |-> i, listing |-> l]

\* The hits a search may return: without any identifier (a non-dict, an empty
\* dict, a dict whose listing is None), and with an identifier at one of the
\* four places the code looks at.
HitSet ==
    { Hit(FALSE, NoVal, NoVal, NoListing),
      Hit(TRUE, NoVal, NoVal, NoListing),
      Hit(TRUE, NoVal, NoVal, NullListing) }
    \cup { Hit(TRUE, IntVal(i), NoVal, NoListing) : i \in Ids }
    \cup { Hit(TRUE, NoVal, StrVal(i), NullListing) : i \in Ids }
    \cup { Hit(TRUE, NoVal, NoVal, DictListing(IntVal(i), NoVal)) : i \in Ids }
    \cup { Hit(TRUE, NoVal, NoVal, DictListing(NoVal, StrVal(i))) : i \in Ids }

\* A search response: a list of at most MaxHits hits (<<>> is also None).
Responses == UNION { [1..n -> HitSet] : n \in 0..MaxHits }

\* Lines 201-210: the identifier of one hit; raised is the AttributeError of
\* None.get when the listing is None and neither room_id nor id is truthy.
ExtractRoomId(result) ==
    IF ~result.dict THEN [raised |-> FALSE, value |-> NoVal]
    ELSE IF Truthy(result.room_id) THEN [raised |-> FALSE, value |-> result.room_id]
    ELSE IF Truthy(result.id) THEN [raised |-> FALSE, value |-> result.id]
    ELSE IF result.listing.k = "null" THEN [raised |-> TRUE, value |-> NoVal]
    ELSE IF Truthy(result.listing.id)
         THEN [raised |-> FALSE, value |-> result.listing.id]
    ELSE [raised |-> FALSE, value |-> result.listing.room_id]

\* Lines 200-213: the loop over the hits of one response, appending to ids.
RECURSIVE ExtractLoop(_, _, _)
ExtractLoop(search_results, i, ids) ==
    IF i > Len(search_results) THEN [raised |-> FALSE, ids |-> ids]
    ELSE LET e == ExtractRoomId(search_results[i]) IN
         IF e.raised THEN [raised |-> TRUE, ids |-> ids]
         ELSE ExtractLoop(search_results, i + 1,
                          IF Truthy(e.value) THEN Append(ids, Str(e.value)) ELSE ids)

\* The identifiers a hit carries, at any of the four places.
CarriedIds(hit) ==
    IF ~hit.dict THEN {}
    ELSE { Str(x) : x \in { y \in {hit.room_id, hit.id, hit.listing.id,
                                   hit.listing.room_id} : Truthy(y) } }

\* Lines 191-213: what search_zone_with_retry did for one zone (status), the
\* ids the loop over its hits appends before it ends or raises (appended),
\* and the ids its hits carried (carried, for the history).
ZoneResult(k, resp) ==
    LET r == wrapper("search", MAX_RETRIES, RETRY_DELAY_SEARCH, k, resp) IN
    IF r.status # "return"
    THEN [status |-> r.status, appended |-> <<>>, carried |-> {}]
    ELSE [status |-> "return",
          appended |-> IF r.value = <<>> THEN <<>>
                       ELSE ExtractLoop(r.value, 1, <<>>).ids,
          carried |-> UNION { CarriedIds(r.value[i]) : i \in 1..Len(r.value) }]

ZoneResults == { ZoneResult(k, resp) : k \in 0..MAX_RETRIES, resp \in Responses }

\* A failed search that loses what the earlier zones collected.
CollectZone_LosesAll(ids, z) ==
    IF z.status = "raise" THEN <<>> ELSE ids \o z.appended

\* Lines 190-216: all_room_ids after the body of the zone loop; the except
\* branch of line 215 keeps what was collected so far.
CollectZone(ids, z) ==
    IF z.status = "raise" THEN ids ELSE ids \o z.appended

\* The list returned as collected, without the set().
UniqueIds_NoSet(ids) == {ids}

\* Line 222: list(set(all_room_ids)); the order of the list is any order.
UniqueIds(ids) ==
    LET S == Range(ids) IN
    { u \in [1..Cardinality(S) -> S] : Range(u) = S }

\* The filter of line 478 left out.
RemainingIds_NoFilter(all, processed) == all

\* Line 478.
RemainingIds(all, processed) ==
    SelectSeq(all, LAMBDA rid : rid \notin processed)

\* The early return of line 486 left out.
NothingToDo_NoneFound(unique_ids, remaining_ids) == Len(unique_ids) = 0

\* Lines 473 and 486: the two early returns of scrape_dubai_incremental.
NothingToDo(unique_ids, remaining_ids) ==
    Len(unique_ids) = 0 \/ Len(remaining_ids) = 0

\* The slice of line 492 left out.
ToProcess_NoCap(remaining) == remaining

\* Line 492.
ToProcess(remaining) == Prefix(remaining, LISTINGS_PER_RUN)

(* ---- the two files ---- *)
\* Lines 129-136; a line is the text of an id, never blank.
load_processed_ids(file) == Range(file)

\* The file opened with "w" instead of "a".
save_processed_id_Rewrites(file, room_id) == <<room_id>>

\* Lines 139-142: open(PROCESSED_IDS_FILE, "a").
save_processed_id(file, room_id) == Append(file, room_id)

\* Lines 145-153: the rows as csv.DictReader returns them (all text).
load_existing_csv(file) == file

\* What csv.DictWriter writes for a value: its text.
CsvCell(x) == [t |-> "str", v |-> x.v]
CsvRow(rec) == [room_id |-> rec.room_id, host_id |-> rec.host_id,
                host_name |-> rec.host_name,
                host_total_listings_in_dubai |-> CsvCell(rec.host_total_listings_in_dubai)]
CsvRows(records) == [i \in 1..Len(records) |-> CsvRow(records[i])]

\* Lines 556-576: open(CSV_FILE, "w") truncates the file, then the rows are
\* written.  The write succeeds, or open fails (file untouched), or a write
\* fails after the truncation (fewer rows than asked, possibly none).
WriteOutcomes(file, records) ==
    { [raised |-> FALSE, file |-> CsvRows(records)],
      [raised |-> TRUE, file |-> file] }
    \cup { [raised |-> TRUE, file |-> Prefix(CsvRows(records), n)] :
             n \in 0..(Len(records) - 1) }

\* Lines 114-126: True, False (CalledProcessError), or another exception
\* (git is not installed) that the function lets through.
GitOutcomes == {"true", "false", "raise"}

(***************************************************************************)
(* extract_listing_data, lines 266-450.  details is the truthy value that  *)
(* get_listing_details returned; only the host id found in it matters to   *)
(* the control flow.  A cache entry is absent, {} or the six host fields.  *)
(***************************************************************************)
DetailVals == { [truthy |-> FALSE, host |-> 0] }
              \cup { [truthy |-> TRUE, host |-> h] : h \in 0..NumOwners }

\* get_host_details: not a dict or falsy, or a dict with first_name and name.
HostVals == { [dict |-> FALSE, first_name |-> "", name |-> ""],
              [dict |-> TRUE, first_name |-> "F", name |-> ""],
              [dict |-> TRUE, first_name |-> "", name |-> "F"] }

NoEntry == [state |-> "absent", name |-> "", total_listings |-> IntVal(0)]
EmptyEntry == [state |-> "empty", name |-> "", total_listings |-> IntVal(0)]
FullEntry(n, t) == [state |-> "full", name |-> n, total_listings |-> t]

Record(room_id, host_id, name, total) ==
    [room_id |-> room_id, host_id |-> host_id, host_name |-> name,
     host_total_listings_in_dubai |-> total]

\* Lines 370-374.
HostName(host_details) ==
    IF host_details.first_name # "" THEN host_details.first_name
    ELSE host_details.name

\* What the two host lookups do when they are called: get_host_full_details
\* raises or returns h, get_host_listings_count returns c.
HostResult(hk, hv, ck, cv) ==
    LET h == wrapper("host", MAX_RETRIES, RETRY_DELAY_HOST, hk, hv)
        c == wrapper("count", MAX_RETRIES, RETRY_DELAY_COUNT, ck, cv)
    IN [status |-> h.status, h |-> IF h.status = "return" THEN h.value ELSE hv,
        c |-> c.value]

HostResults ==
    { HostResult(hk, hv, ck, cv) : hk \in 0..MAX_RETRIES, hv \in HostVals,
                                   ck \in 0..MAX_RETRIES, cv \in 0..MaxCount }

\* One execution of extract_listing_data, ho being what the host lookups do
\* if they are called.
ExtractListingData(room_id, details, cache, ho) ==
    LET host_id == details.host IN
    IF host_id = 0
    THEN [record |-> Record(room_id, 0, "", IntVal(0)), cache |-> cache,
          hostCalls |-> <<>>, countCalls |-> <<>>]
    ELSE IF cache[host_id].state # "absent"
    THEN [record |-> Record(room_id, host_id, cache[host_id].name,
                            cache[host_id].total_listings),
          cache |-> cache, hostCalls |-> <<>>, countCalls |-> <<>>]
    ELSE IF ho.status = "raise"
         THEN [record |-> Record(room_id, host_id, "", IntVal(0)),
               cache |-> [cache EXCEPT ![host_id] = EmptyEntry],
               hostCalls |-> <<host_id>>, countCalls |-> <<>>]
         ELSE IF ~ho.h.dict
         THEN [record |-> Record(room_id, host_id, "", IntVal(0)),
               cache |-> cache, hostCalls |-> <<host_id>>, countCalls |-> <<>>]
         ELSE LET total == IntVal(ho.c)
                  name == HostName(ho.h)
              IN [record |-> Record(room_id, host_id, name, total),
                  cache |-> [cache EXCEPT ![host_id] = FullEntry(name, total)],
                  hostCalls |-> <<host_id>>, countCalls |-> <<host_id>>]

\* What get_listing_details does for one id: raises, or returns details.
DetailResult(dk, dv) ==
    LET d == wrapper("detail", MAX_RETRIES, RETRY_DELAY_DETAILS, dk, dv) IN
    [status |-> d.status, details |-> IF d.status = "return" THEN d.value ELSE dv]

DetailResults == { DetailResult(dk, dv) : dk \in 0..MAX_RETRIES, dv \in DetailVals }

(* ---- history of a run ---- *)
\* failed: the zones whose search raised; okIds: the ids appended to
\* all_room_ids; shared: those appended for more than one zone; carried: the
\* ids carried by the hits of the responses.  These four describe the zone
\* loop and are kept until the detail loop starts.
\* fetched, hostCalls, countCalls: the arguments of the calls of
\* get_listing_details, get_host_full_details and get_host_listings_count;
\* marked: the ids this run appended to processed_ids.txt.
\* noDetails: the ids for which get_listing_details raised or returned a
\* falsy value.
\* paused, git: what the latest step of the run did: it ended with
\* time.sleep(DELAY_BETWEEN_DETAILS); it called git_commit_and_push, which
\* returned True ("true") or False ("false") or raised ("raise").
NoHist == [failed |-> {}, okIds |-> {}, shared |-> {}, carried |-> {}, fetched |-> <<>>,
           hostCalls |-> <<>>, countCalls |-> <<>>, marked |-> <<>>,
           noDetails |-> {}, paused |-> FALSE, git |-> "none"]

\* The history once the detail loop has started.
DetailLoop(h) ==
    [h EXCEPT !.failed = {}, !.okIds = {}, !.shared = {}, !.carried = {}]

NoRetry == [op |-> "none", n |-> 0, k |-> 0, val |-> 0, out |-> <<>>]
NoGrid == [rows |-> 0, cols |-> 0, out |-> <<>>]

IdleRun ==
    /\ processed_ids = {}
    /\ existing_records = <<>>
    /\ zoneIdx = 0
    /\ all_room_ids = <<>>
    /\ to_process = <<>>
    /\ idx = 0
    /\ new_records = <<>>
    /\ commit_counter = 0
    /\ host_cache = [h \in Hosts |-> NoEntry]
    /\ hist = NoHist

Init ==
    /\ processedFile = <<>>
    /\ csvFile = <<>>
    /\ pc = "idle"
    /\ runs = 0
    /\ IdleRun
    /\ retry = NoRetry
    /\ grid = NoGrid
    /\ lost = {}
    /\ owners = NumHosts

\* The locals of scrape_dubai_incremental are gone with the process.
ResetLocals ==
    /\ processed_ids' = {}
    /\ existing_records' = <<>>
    /\ zoneIdx' = 0
    /\ all_room_ids' = <<>>
    /\ to_process' = <<>>
    /\ idx' = 0
    /\ new_records' = <<>>
    /\ commit_counter' = 0
    /\ host_cache' = [h \in Hosts |-> NoEntry]

ResetRun ==
    /\ ResetLocals
    /\ hist' = NoHist

\* The history of the earlier runs once this run is over.
LostAfter == (lost \ Range(hist.fetched)) \cup hist.noDetails

\* Lines 453-468: the script is started; it loads the two files.
StartRun ==
    /\ pc = "idle"
    /\ runs < MaxRuns
    /\ runs' = runs + 1
    /\ processed_ids' = load_processed_ids(processedFile)
    /\ existing_records' = load_existing_csv(csvFile)
    /\ zoneIdx' = 1
    /\ pc' = "discover"
    /\ UNCHANGED <<fileVars, all_room_ids, to_process, idx, new_records,
                   commit_counter, host_cache, hist, retry, grid, lost, owners>>

\* The zone loop without the try of line 190: the exception of a failed
\* search ends the script.
SearchZone_StopsOnFailure ==
    /\ pc = "discover"
    /\ zoneIdx <= NumZones
    /\ \E z \in ZoneResults :
         IF z.status = "raise"
         THEN /\ pc' = "crashed"
              /\ ResetRun
              /\ lost' = LostAfter
              /\ UNCHANGED <<fileVars, runs, retry, grid, owners>>
         ELSE /\ all_room_ids' = CollectZone(all_room_ids, z)
              /\ hist' = [hist EXCEPT !.okIds = @ \cup Range(z.appended),
                                      !.shared = @ \cup (Range(z.appended) \cap hist.okIds),
                                      !.carried = @ \cup z.carried]
              /\ zoneIdx' = zoneIdx + 1
              /\ UNCHANGED <<fileVars, pc, runs, processed_ids, existing_records,
                             to_process, idx, new_records, commit_counter,
                             host_cache, retry, grid, lost, owners>>

\* Lines 187-219: one turn of the zone loop of collect_all_room_ids.
SearchZone ==
    /\ pc = "discover"
    /\ zoneIdx <= NumZones
    /\ \E z \in ZoneResults :
         /\ all_room_ids' = CollectZone(all_room_ids, z)
         /\ hist' = IF z.status = "raise"
                    THEN [hist EXCEPT !.failed = @ \cup {zoneIdx}]
                    ELSE [hist EXCEPT !.okIds = @ \cup Range(z.appended),
                                      !.shared = @ \cup (Range(z.appended) \cap hist.okIds),
                                      !.carried = @ \cup z.carried]
    /\ zoneIdx' = zoneIdx + 1
    /\ UNCHANGED <<fileVars, pc, runs, processed_ids, existing_records, to_process,
                   idx, new_records, commit_counter, host_cache, retry, grid, lost, owners>>

\* Lines 221-224 and 473-498: the deduplication that ends
\* collect_all_room_ids, then the filter against processed_ids and the cap.
DedupAndFilter ==
    /\ pc = "discover"
    /\ zoneIdx > NumZones
    /\ \E unique_ids \in UniqueIds(all_room_ids) :
         LET remaining_ids == RemainingIds(unique_ids, processed_ids) IN
         /\ all_room_ids' = unique_ids
         /\ IF NothingToDo(unique_ids, remaining_ids)
            THEN /\ pc' = "done"
                 /\ UNCHANGED <<to_process, idx>>
            ELSE /\ pc' = "fetch"
                 /\ to_process' = ToProcess(remaining_ids)
                 /\ idx' = 1
    /\ UNCHANGED <<fileVars, runs, processed_ids, existing_records, zoneIdx,
                   new_records, commit_counter, host_cache, hist, retry, grid, lost, owners>>

\* git_commit_and_push called before write_csv: when it raises, the file is
\* not written.
CommitOutcomes_PushFirst(file, all_records, counter) ==
    IF counter + 1 < COMMIT_EVERY
    THEN { [file |-> file, commit_counter |-> counter + 1, git |-> "none"] }
    ELSE { [file |-> file, commit_counter |-> counter + 1, git |-> "raise"] }
         \cup { [file |-> w.file,
                 commit_counter |-> IF w.raised THEN counter + 1 ELSE 0,
                 git |-> g] :
                  w \in WriteOutcomes(file, all_records), g \in {"true", "false"} }

\* Lines 516-522, once save_processed_id has returned: the counter, and every
\* COMMIT_EVERY listings the CSV write and the commit.  An exception of
\* write_csv or of git_commit_and_push leaves the counter as incremented.
CommitOutcomes(file, all_records, counter) ==
    IF counter + 1 < COMMIT_EVERY
    THEN { [file |-> file, commit_counter |-> counter + 1, git |-> "none"] }
    ELSE { [file |-> w.file,
            commit_counter |-> IF w.raised \/ g = "raise" THEN counter + 1 ELSE 0,
            git |-> IF w.raised THEN "none" ELSE g] :
             w \in WriteOutcomes(file, all_records), g \in GitOutcomes }

\* get_listing_details raised, or returned a falsy value.
NoDetails(d) == d.status # "return" \/ ~d.details.truthy

\* The test of line 506 left out: only an exception skips the listing.
Skipped_OnlyOnRaise(d) == d.status # "return"

\* Lines 503-508 and 524: the turn makes no record when get_listing_details
\* raised (except branch) or when `not details` (continue).
Skipped(d) == d.status # "return" \/ ~d.details.truthy

\* Lines 500-527: one turn of the detail loop, for to_process[idx].
ProcessListing ==
    /\ pc = "fetch"
    /\ idx <= Len(to_process)
    /\ idx' = idx + 1
    /\ LET room_id == to_process[idx] IN
       \E d \in { x \in DetailResults : x.details.host <= owners } :
         IF Skipped(d)
         THEN \* retries exhausted (except branch, then the pause of line
              \* 527) or no details (continue of line 508: no pause)
              /\ hist' = [DetailLoop(hist) EXCEPT !.fetched = Append(@, room_id),
                                                  !.noDetails = @ \cup {room_id},
                                                  !.paused = (d.status # "return"),
                                                  !.git = "none"]
              /\ UNCHANGED <<fileVars, new_records, commit_counter, host_cache>>
         ELSE \E ho \in HostResults :
                LET e == ExtractListingData(room_id, d.details, host_cache, ho) IN
                /\ new_records' = Append(new_records, e.record)
                /\ host_cache' = e.cache
                /\ \/ \* save_processed_id raises: except branch
                      /\ hist' = [DetailLoop(hist) EXCEPT
                                              !.fetched = Append(@, room_id),
                                              !.hostCalls = @ \o e.hostCalls,
                                              !.countCalls = @ \o e.countCalls,
                                              !.noDetails = IF NoDetails(d)
                                                            THEN @ \cup {room_id} ELSE @,
                                              !.paused = TRUE,
                                              !.git = "none"]
                      /\ UNCHANGED <<fileVars, commit_counter>>
                   \/ \* save_processed_id returns
                      /\ processedFile' = save_processed_id(processedFile, room_id)
                      /\ \E c \in CommitOutcomes(csvFile,
                                     existing_records \o Append(new_records, e.record),
                                     commit_counter) :
                           /\ csvFile' = c.file
                           /\ commit_counter' = c.commit_counter
                           /\ hist' = [DetailLoop(hist) EXCEPT
                                              !.fetched = Append(@, room_id),
                                              !.hostCalls = @ \o e.hostCalls,
                                              !.countCalls = @ \o e.countCalls,
                                              !.marked = Append(@, room_id),
                                              !.noDetails = IF NoDetails(d)
                                                            THEN @ \cup {room_id} ELSE @,
                                              !.paused = TRUE,
                                              !.git = c.git]
    /\ UNCHANGED <<pc, runs, processed_ids, existing_records, zoneIdx, all_room_ids,
                   to_process, retry, grid, lost, owners>>

\* Lines 529-553: the final CSV write and the final commit; an exception of
\* either ends the script with a traceback.
FinalWrite ==
    /\ pc = "fetch"
    /\ idx > Len(to_process)
    /\ \E w \in WriteOutcomes(csvFile, existing_records \o new_records),
          g \in GitOutcomes :
         LET git == IF w.raised \/ ~(commit_counter > 0 \/ Len(new_records) > 0)
                    THEN "none" ELSE g
         IN /\ csvFile' = w.file
            /\ IF w.raised \/ git = "raise"
               THEN /\ pc' = "crashed"
                    /\ ResetLocals
                    /\ hist' = [NoHist EXCEPT !.git = git]
                    /\ lost' = LostAfter
               ELSE /\ pc' = "done"
                    /\ hist' = [DetailLoop(hist) EXCEPT !.paused = FALSE, !.git = git]
                    /\ UNCHANGED <<runVars, lost>>
    /\ UNCHANGED <<processedFile, runs, retry, grid, owners>>

\* The script has returned or died of an exception: the process is gone.
EndRun ==
    /\ pc \in {"done", "crashed"}
    /\ pc' = "idle"
    /\ ResetRun
    /\ lost' = IF pc = "done" THEN LostAfter ELSE lost
    /\ UNCHANGED <<fileVars, runs, retry, grid, owners>>

\* The process is killed between two steps of a run (external signal).
Terminate ==
    /\ pc \in {"discover", "fetch"}
    /\ pc' = "idle"
    /\ ResetRun
    /\ lost' = LostAfter
    /\ UNCHANGED <<fileVars, runs, retry, grid, owners>>

Next ==
    \/ StartRun
    \/ SearchZone
    \/ DedupAndFilter
    \/ ProcessListing
    \/ FinalWrite
    \/ EndRun
    \/ Terminate

Spec == Init /\ [][Next]_vars

(* ---- what the claims speak of ---- *)
CsvIds(rows) == { rows[i].room_id : i \in 1..Len(rows) }
Discovered == Range(all_room_ids)
\* The run is past collect_all_room_ids and the filter.
Filtered == pc \in {"fetch", "done"}
\* The run has just left collect_all_room_ids: the history of the zone loop
\* is still there.
JustFiltered == Filtered /\ hist.fetched = <<>>

(* ---- C1 .. C5 ---- *)

\* C1 (as claimed): in every state, every room id written in
\* processed_ids.txt has a row in dubai_listings.csv.
C1_PersistThenMark == Range(processedFile) \subseteq CsvIds(csvFile)

\* C2 (as claimed): when a run is terminated in the detail loop, every id it
\* has marked done has its record in the CSV file (an id whose record is not
\* yet written is not marked, so a later run takes it again).
C2_CancellationSafety ==
    [][(pc = "fetch" /\ pc' = "idle")
         => Range(hist.marked) \subseteq CsvIds(csvFile')]_vars

\* C3: the ids that were in processed_ids.txt when the run started are the
\* loaded set processed_ids; none of them is in to_process and
\* get_listing_details is called for none of them, even when rediscovered.
C3_CheckpointResumption ==
    pc \in {"discover", "fetch", "done"} =>
        LET atStart == Range(processedFile) \ Range(hist.marked) IN
        /\ atStart = processed_ids
        /\ Range(to_process) \cap atStart = {}
        /\ Range(hist.fetched) \cap atStart = {}

\* C3: a run whose discovery found again an id of the checkpoint, and that
\* has fetched another id.
C3_Witness ==
    /\ pc = "fetch"
    /\ Discovered \cap processed_ids # {}
    /\ hist.fetched # <<>>

\* C4 (as claimed): the CSV file never holds two rows with the same room_id.
C4_NoDuplicateRows ==
    \A i, j \in 1..Len(csvFile) :
        i # j => csvFile[i].room_id # csvFile[j].room_id

\* C5: a run in which every discovered id is already in the checkpoint
\* returns without any detail fetch or host lookup, and leaves both files as
\* they were when it started.
C5_RerunIsNoOp ==
    (Filtered /\ Discovered \subseteq processed_ids) =>
        /\ pc = "done"
        /\ to_process = <<>>
        /\ hist.fetched = <<>>
        /\ hist.hostCalls = <<>>
        /\ hist.countCalls = <<>>
        /\ hist.marked = <<>>
        /\ csvFile = existing_records
        /\ Range(processedFile) = processed_ids

\* C5: a second run that rediscovered only ids of the checkpoint has returned.
C5_Witness ==
    /\ pc = "done"
    /\ Discovered # {}
    /\ Discovered \subseteq processed_ids

(* ---- C6 (RetrySpec) ---- *)

\* C6 (as claimed): for n >= 1 and each of the four decorated functions, the
\* call returns the remote value after k+1 calls when k < n, and raises after
\* exactly n calls when k >= n.
C6_RetryCeiling ==
    (retry.out # <<>> /\ retry.n >= 1) =>
        LET r == retry.out[1] IN
        /\ retry.k < retry.n =>
             r.status = "return" /\ r.value = retry.val /\ r.calls = retry.k + 1
        /\ retry.k >= retry.n => r.status = "raise" /\ r.calls = retry.n

(* ---- C7 .. C10 ---- *)

\* C7: a zone whose search raises adds nothing, and takes nothing away: the
\* list holds exactly the ids appended for the zones that answered; the zone
\* loop runs to its end, and the run goes on to the detail loop whenever one
\* of these ids is not in the checkpoint.
C7_DiscoveryFailureIsolation ==
    /\ pc = "discover" =>
         /\ Range(all_room_ids) = hist.okIds
         /\ hist.failed \subseteq 1..(zoneIdx - 1)
    /\ JustFiltered =>
         /\ zoneIdx = NumZones + 1
         /\ Discovered = hist.okIds
         /\ hist.okIds \ processed_ids # {} =>
              /\ pc = "fetch"
              /\ to_process # <<>>
              /\ Range(to_process) \subseteq hist.okIds \ processed_ids

\* C7: the search of a zone raised, and the run is in the detail loop with
\* ids of the other zone.
C7_Witness ==
    /\ pc = "fetch"
    /\ JustFiltered
    /\ hist.failed # {}
    /\ to_process # <<>>

\* C8: the list that collect_all_room_ids returns has no identifier twice,
\* and its content is the set of the identifiers extracted, whatever the
\* order and the number of the hits that carried them.
C8_Dedup ==
    JustFiltered =>
        /\ NoDup(all_room_ids)
        /\ \A id \in hist.okIds :
             Cardinality({ i \in 1..Len(all_room_ids) : all_room_ids[i] = id }) = 1
        /\ \A i \in 1..Len(all_room_ids) : all_room_ids[i] \in hist.okIds

\* C8: an identifier was extracted for two zones, and the list is returned.
C8_Witness == JustFiltered /\ hist.shared # {}

\* C9 (as claimed): every identifier carried by a hit of a response is in
\* the list, whatever the other hits of the response.
C9_UnidentifiedHitsDropped ==
    (pc = "discover" \/ JustFiltered) =>
        hist.carried \subseteq Range(all_room_ids)

\* C10: get_listing_details is called only for discovered ids that are not
\* in the checkpoint, once each, for at most LISTINGS_PER_RUN ids; and the
\* run appends at most LISTINGS_PER_RUN ids to processed_ids.txt.
C10_PerRunCap ==
    pc \in {"fetch", "done"} =>
        /\ Range(hist.fetched) \subseteq Discovered \ processed_ids
        /\ NoDup(hist.fetched)
        /\ Len(hist.fetched) <= LISTINGS_PER_RUN
        /\ Range(hist.marked) \subseteq Range(hist.fetched)
        /\ NoDup(hist.marked)
        /\ Len(hist.marked) <= LISTINGS_PER_RUN

\* C10: more ids remained than the cap, and the run fetched exactly the cap.
C10_Witness ==
    /\ pc = "done"
    /\ Cardinality(Discovered \ processed_ids) > LISTINGS_PER_RUN
    /\ Len(hist.fetched) = LISTINGS_PER_RUN

(* ---- C11, C13, C16 ---- *)

\* C11 (as claimed): in a run, get_host_full_details is called at most once
\* for each host id, whatever the calls answered.
C11_EnrichedOncePerRun == NoDup(hist.hostCalls)

\* The room ids of the rows of an owner.
RoomsOfHost(rows, h) == { rows[i].room_id : i \in { j \in 1..Len(rows) : rows[j].host_id = h } }

\* C13 (as claimed): after a completed run, the count stored in each row of
\* an owner is the number of distinct room ids of the rows of that owner in
\* the CSV file (the earlier records and those of this run).
C13_AggregatorCorrectness ==
    (pc = "done" /\ to_process # <<>>) =>
        \A i \in 1..Len(csvFile) :
            csvFile[i].host_id # 0 =>
                csvFile[i].host_total_listings_in_dubai.v
                    = Cardinality(RoomsOfHost(csvFile, csvFile[i].host_id))

\* C16: every step leaves what processed_ids.txt held in place, at most
\* appending to it, and no id is ever in the file twice.
C16_AppendOnly ==
    [][/\ Len(processedFile') >= Len(processedFile)
       /\ SubSeq(processedFile', 1, Len(processedFile)) = processedFile
       /\ NoDup(processedFile')]_vars

\* C16: a second run has rediscovered an id of the checkpoint and appended
\* another id to the file.
C16_Witness ==
    /\ runs > 1
    /\ processed_ids # {}
    /\ Discovered \cap processed_ids # {}
    /\ hist.marked # <<>>
    /\ Len(processedFile) >= 2


(* ---- C17 ---- *)

\* What C17 says of the run in which the detail fetch of an id gives no
\* details: the id gets no record and no mark, and the loop goes on to the
\* end of the work list.
SkippedInRun ==
    /\ pc \in {"fetch", "done"} =>
         /\ hist.noDetails \cap CsvIds(new_records) = {}
         /\ hist.noDetails \cap Range(hist.marked) = {}
         /\ hist.noDetails \cap Range(processedFile) = {}
    /\ pc = "fetch" => hist.fetched = SubSeq(to_process, 1, idx - 1)
    /\ (pc = "done" /\ to_process # <<>>) => hist.fetched = to_process

\* C17 (as claimed): ..., and a later run that rediscovers such an id has it
\* in its work list.
C17_DetailFailureIsolation ==
    /\ SkippedInRun
    /\ Filtered => (lost \cap Discovered) \subseteq Range(to_process)

\* C17 (amended): ..., and a later run that rediscovers such an id, fetched
\* by no run since, has it among its remaining ids (it is not in the loaded
\* checkpoint), takes min(LISTINGS_PER_RUN, number remaining) of the
\* remaining ids, and so has it in its work list whenever at most
\* LISTINGS_PER_RUN ids remain.
C17_Amended ==
    /\ SkippedInRun
    /\ Filtered =>
         LET remaining == Discovered \ processed_ids IN
         /\ (lost \cap Discovered) \subseteq remaining
         /\ Range(to_process) \subseteq remaining
         /\ Len(to_process) = Min(LISTINGS_PER_RUN, Cardinality(remaining))
         /\ Cardinality(remaining) <= LISTINGS_PER_RUN =>
              (lost \cap Discovered) \subseteq Range(to_process)

\* C17: a later run took again an id whose detail fetch had failed; in this
\* run the fetch of its first id gave no details and its second id got a
\* record.
C17_Witness ==
    /\ pc = "fetch"
    /\ lost \cap Range(to_process) # {}
    /\ Len(hist.fetched) = 2
    /\ hist.fetched[1] \in hist.noDetails
    /\ hist.fetched[2] \in CsvIds(new_records)

(* ---- C19 ---- *)

\* C19 (as claimed): every turn of the detail loop ends with the pause
\* time.sleep(DELAY_BETWEEN_DETAILS), whatever get_listing_details did, so
\* that a pause separates the fetches of two consecutive ids.
C19_RateLimitDiscipline ==
    (pc = "fetch" /\ hist.fetched # <<>>) => hist.paused

(* ---- C14 ---- *)

\* The latest step called git_commit_and_push, which returned False or
\* raised.
PublishFailed(h) == h.git \in {"false", "raise"}

\* C14: a step in which git_commit_and_push fails leaves the CSV file as
\* write_csv has just written it (all the records of the earlier runs and of
\* this run) and loses no line of processed_ids.txt.  At a periodic
\* checkpoint the loop goes on with the next id of the work list; at the
\* final commit every id of the work list has been fetched.
C14_PublishFailureNonFatal ==
    [][(PublishFailed(hist') /\ pc = "fetch") =>
          IF idx <= Len(to_process)
          THEN /\ pc' = "fetch"
               /\ to_process' = to_process
               /\ idx' = idx + 1
               /\ csvFile' = CsvRows(existing_records' \o new_records')
               /\ processedFile' = Append(processedFile, to_process[idx])
          ELSE /\ pc' \in {"done", "crashed"}
               /\ hist.fetched = to_process
               /\ csvFile' = CsvRows(existing_records \o new_records)
               /\ processedFile' = processedFile]_vars

\* C14: git_commit_and_push raised at a periodic checkpoint of a run that had
\* records of an earlier run to keep, and the run is still in its loop.
C14_Witness ==
    /\ pc = "fetch"
    /\ hist.git = "raise"
    /\ existing_records # <<>>
    /\ Len(csvFile) > Len(existing_records)

(***************************************************************************)
(* retry_on_failure on its own: a decorated function (op) is called once   *)
(* with max_retries = n and delay, on a remote operation that fails on its *)
(* first k calls and then answers val.                                     *)
(***************************************************************************)
RetryOps == {"search", "detail", "host", "count"}

RetryDelay(op) ==
    IF op = "search" THEN RETRY_DELAY_SEARCH
    ELSE IF op = "detail" THEN RETRY_DELAY_DETAILS
    ELSE IF op = "host" THEN RETRY_DELAY_HOST
    ELSE RETRY_DELAY_COUNT

RetryInit ==
    /\ processedFile = <<>>
    /\ csvFile = <<>>
    /\ pc = "idle"
    /\ runs = 0
    /\ IdleRun
    /\ retry \in [op : RetryOps, n : 0..MaxN, k : 0..MaxK,
                  val : 1..(MaxCount + 1), out : {<<>>}]
    /\ grid = NoGrid
    /\ lost = {}
    /\ owners = NumHosts

RetryCall ==
    /\ retry.out = <<>>
    /\ retry' = [retry EXCEPT
                   !.out = <<wrapper(retry.op, retry.n, RetryDelay(retry.op),
                                     retry.k, retry.val)>>]
    /\ UNCHANGED <<fileVars, pc, runs, runVars, hist, grid, lost, owners>>

RetryNext == RetryCall

RetrySpec == RetryInit /\ [][RetryNext]_vars

(* ---- C18 (RetrySpec) ---- *)

\* C18: in one call of a decorated function with delay d, the i-th sleep
\* lasts d * 2^(i-1) and there is exactly one sleep between two consecutive
\* attempts: none after the attempt that returns, none after the last failed
\* attempt.  For the three functions whose body lets the remote failure
\* through, a remote operation failing k times gives min(k, n-1) sleeps.
C18_BackoffSchedule ==
    retry.out # <<>> =>
        LET r == retry.out[1]
            d == RetryDelay(retry.op)
        IN /\ Len(r.sleeps) = IF r.calls = 0 THEN 0 ELSE r.calls - 1
           /\ \A i \in 1..Len(r.sleeps) : r.sleeps[i] = d * 2^(i - 1)
           /\ (retry.op # "count" /\ retry.n >= 1) =>
                Len(r.sleeps) = Min(retry.k, retry.n - 1)

\* C18: a call that raised after three sleeps.
C18_Witness ==
    /\ retry.out # <<>>
    /\ retry.out[1].status = "raise"
    /\ Len(retry.out[1].sleeps) >= 3

(***************************************************************************)
(* build_dubai_city_subzones on its own: one call with rows and cols.      *)
(***************************************************************************)
GridInit ==
    /\ processedFile = <<>>
    /\ csvFile = <<>>
    /\ pc = "idle"
    /\ runs = 0
    /\ IdleRun
    /\ retry = NoRetry
    /\ grid \in [rows : (-MaxGrid)..MaxGrid, cols : (-MaxGrid)..MaxGrid, out : {<<>>}]
    /\ lost = {}
    /\ owners = NumHosts

GridCall ==
    /\ grid.out = <<>>
    /\ grid' = [grid EXCEPT !.out = <<build_dubai_city_subzones(grid.rows, grid.cols)>>]
    /\ UNCHANGED <<fileVars, pc, runs, runVars, hist, retry, lost, owners>>

GridNext == GridCall

GridSpec == GridInit /\ [][GridNext]_vars

(* ---- C15 (GridSpec) ---- *)

\* The zone of row r and column c (from 0) in the list returned.
ZoneAt(zones, cols, r, c) == zones[r * cols + c + 1]

\* C15 (as claimed): for positive rows and cols the call returns rows*cols
\* zones in row-major order, with distinct names, each inside the bounding
\* box, a zone's north edge being the south edge of the zone above it and
\* its east edge the west edge of the zone to its right, the outer edges
\* being those of the box; for rows <= 0 or cols <= 0 the call fails.
C15_Partition ==
    grid.out # <<>> =>
        LET rows == grid.rows
            cols == grid.cols
            res == grid.out[1]
            zones == res.zones
        IN IF rows <= 0 \/ cols <= 0
           THEN res.raised
           ELSE /\ ~res.raised
                /\ Len(zones) = rows * cols
                /\ \A i, j \in 1..Len(zones) : i # j => zones[i].name # zones[j].name
                /\ \A r \in 0..(rows - 1), c \in 0..(cols - 1) :
                     LET z == ZoneAt(zones, cols, r, c) IN
                     /\ z.name = <<r + 1, c + 1>>
                     /\ SOUTH * rows <= z.sw_lat /\ z.sw_lat < z.ne_lat
                     /\ z.ne_lat <= NORTH * rows
                     /\ WEST * cols <= z.sw_long /\ z.sw_long < z.ne_long
                     /\ z.ne_long <= EAST * cols
                     /\ IF r = 0 THEN z.sw_lat = SOUTH * rows
                        ELSE z.sw_lat = ZoneAt(zones, cols, r - 1, c).ne_lat
                     /\ IF c = 0 THEN z.sw_long = WEST * cols
                        ELSE z.sw_long = ZoneAt(zones, cols, r, c - 1).ne_long
                     /\ r = rows - 1 => z.ne_lat = NORTH * rows
                     /\ c = cols - 1 => z.ne_long = EAST * cols

(***************************************************************************)
(* One run of the script that nothing kills, started on the files that no  *)
(* run or one run has left, in an area of one to NumOwners hosts.  The     *)
(* interpreter executes the script statement after statement and every     *)
(* call returns or raises: each step of a run is taken when it can be      *)
(* (weak fairness).                                                        *)
(***************************************************************************)
EarlierFiles ==
    { [processed |-> <<>>, csv |-> <<>>],
      [processed |-> <<1>>, csv |-> CsvRows(<<Record(1, 0, "", IntVal(0))>>)] }

RunInit ==
    /\ \E f \in EarlierFiles :
         /\ processedFile = f.processed
         /\ csvFile = f.csv
    /\ pc = "idle"
    /\ runs = MaxRuns - 1
    /\ IdleRun
    /\ retry = NoRetry
    /\ grid = NoGrid
    /\ lost = {}
    /\ owners \in NumHosts..NumOwners

RunNext ==
    \/ StartRun
    \/ SearchZone
    \/ DedupAndFilter
    \/ ProcessListing
    \/ FinalWrite
    \/ EndRun

RunSpec ==
    /\ RunInit
    /\ [][RunNext]_vars
    /\ WF_vars(SearchZone)
    /\ WF_vars(DedupAndFilter)
    /\ WF_vars(ProcessListing)
    /\ WF_vars(FinalWrite)

(* ---- C20 (RunSpec) ---- *)

\* The stages of a run: Init (the files are loaded), Discovering (the zone
\* loop), FetchingDetails (the detail loop), Done (the function returned).
\* FilteringAgainstCheckpoint is the step from the zone loop to the detail
\* loop or to Done; Persisted is the step from the detail loop to Done.
\* "crashed": the script died of an exception.

\* C20: a step of a run keeps its stage or takes it forward: the zone loop
\* is left only after its last zone, by the filter, for the detail loop or,
\* when nothing is left to do, for Done; the detail loop is left only after
\* the last id of the work list, by the final write, for Done with the CSV
\* file written; no remote failure ends the script (it dies only of an
\* exception of the final write_csv or git call, which are local).  And a
\* started run always arrives there: at Done, or at that death.
C20_RunStateMachine ==
    /\ [][/\ pc' = "discover" => pc \in {"idle", "discover"}
          /\ pc' = "fetch" =>
               \/ pc = "fetch" /\ idx <= Len(to_process)
               \/ pc = "discover" /\ zoneIdx > NumZones /\ to_process' # <<>>
          /\ pc' = "done" =>
               \/ pc = "discover" /\ zoneIdx > NumZones /\ UNCHANGED fileVars
               \/ /\ pc = "fetch" /\ idx > Len(to_process)
                  /\ csvFile' = CsvRows(existing_records \o new_records)
          /\ pc' = "crashed" => pc = "fetch" /\ idx > Len(to_process)
          /\ pc' = "idle" => pc \in {"done", "crashed"}]_vars
    /\ (pc = "discover") ~> (pc = "done" \/ pc = "crashed")

\* C20: a run started on the files of an earlier run, in which the detail
\* fetch of an id gave nothing, has written the CSV file and returned.
C20_Witness ==
    /\ pc = "done"
    /\ processed_ids # {}
    /\ hist.noDetails # {}
    /\ Len(new_records) > 0
    /\ csvFile = CsvRows(existing_records \o new_records)

(* ---- C12 (RunSpec) ---- *)

\* The source has no setting for an enrichment budget.  The budget taken
\* here is one below the number of hosts: a work list with a listing of each
\* host needs more.
ENRICHMENT_BUDGET == NumOwners - 1

\* C12 (as claimed): in a run, the number of distinct hosts for which
\* get_host_full_details is called is at most the enrichment budget.
C12_EnrichmentBudget ==
    Cardinality(Range(hist.hostCalls)) <= ENRICHMENT_BUDGET

(* ---- C21 ---- *)

\* The owner fields of a record: the name and the count stand for the six
\* fields, which extract_listing_data sets and caches together.
OwnerFields(rec) ==
    [host_name |-> rec.host_name,
     host_total_listings_in_dubai |-> rec.host_total_listings_in_dubai]

\* C21 (as claimed): two records that a run produced for the same non-empty
\* host_id carry the same owner fields, whether the first was built from a
\* fresh lookup, from a failed lookup or from host_cache.
C21_OwnerFieldConsistency ==
    \A i, j \in 1..Len(new_records) :
        (new_records[i].host_id # 0 /\ new_records[i].host_id = new_records[j].host_id)
            => OwnerFields(new_records[i]) = OwnerFields(new_records[j])
====
